---- MODULE Spec2Model ----
(***************************************************************************)
(* Boardly: the stroke-to-shape recognition engine and the hit tester      *)
(* (src/utils/geometry.ts), the board/history state of the App component   *)
(* (src/unnamed/part_000) and the shape oracle                             *)
(* (src/services/geminiService.ts).                                        *)
(*                                                                         *)
(* Numbers.  The program computes in IEEE doubles.  The model computes in  *)
(* fixed point: a length or a coordinate is an integer number of 1/Scale   *)
(* pixel, and every division and square root rounds to the nearest unit.   *)
(* On strokes whose points have whole-pixel coordinates and axis-aligned   *)
(* segments the two agree exactly; elsewhere the model's rounding (0.1 px) *)
(* is coarser than the program's.  A double has 53 significant bits; the   *)
(* model's numbers have 12 (Significand), which only coordinates far from  *)
(* the origin exceed: there a sum can round back to its larger term, as    *)
(* it does in the program.                                                 *)
(*                                                                         *)
(* Arrays.  A JavaScript array is a sequence; array index k of the source  *)
(* is index k+1 here.  The counter i of resample and the corner indices of *)
(* getCorners keep the source's 0-based values.                            *)
(***************************************************************************)
EXTENDS Integers, Sequences, FiniteSets, TLC

VARIABLES
  \* ---- one call of a function of geometry.ts or of identifyShape ----
  pc,            \* position in the call
  caller,        \* which function was called
  input,         \* the arguments (a point array) as they were when the call began
  heap,          \* the two arrays alive during a call: points, closedPoints
  walk,          \* which array of the heap resample was handed
  spacing,       \* resample's spacing argument
  i,             \* resample's loop counter (0-based, as in the source)
  currentDist,   \* resample's distance walked since the last emitted point
  newPoints,     \* resample's output under construction
  corners,       \* getCorners(resampled)
  cleanCorners,  \* detectShape's cleaned corner list
  verdict,       \* the value the call returns
  calls,         \* number of calls of detectShape begun on this array
  firstVerdict,  \* the verdict of the first call
  \* ---- the App component (src/unnamed/part_000) ----
  elements,      \* useState<BoardElement[]>
  history,       \* useState<BoardElement[][]>
  historyStep,   \* useState<number>
  currentTool,
  currentColor,
  currentWidth,
  currentElement,
  isDrawing,
  pending,       \* paste callbacks in flight, each with the closure it captured
  nextId,        \* stands for uuidv4(): the next fresh id
  gesture,       \* the script the pointer is tracing, and how far it is
  env,           \* what the user does in this run: the scripts traced, the additions
  lastOp,        \* the last handler that ran, with what it saw and produced
  \* ---- the shape oracle (src/services/geminiService.ts) ----
  oracle         \* the remote generateContent call of identifyShape

callVars == <<pc, caller, input, heap, walk, spacing, i, currentDist, newPoints,
              corners, cleanCorners, verdict, calls, firstVerdict>>
appVars == <<elements, history, historyStep, currentTool, currentColor,
             currentWidth, currentElement, isDrawing, pending, nextId, gesture,
             env, lastOp>>
oracleVars == <<oracle>>
vars == <<callVars, appVars, oracleVars>>

----------------------------------------------------------------------------
\* Fixed-point arithmetic

\* Units per pixel.
Scale == 10

\* Units of the clamped parameter t of distToSegment (t in [0,1]).
TScale == 1000

\* a / b rounded to the nearest integer, b > 0.
RDiv(a, b) == (2 * a + b) \div (2 * b)

RECURSIVE SqrtIter(_, _)
SqrtIter(n, g) ==
  LET h == (g + n \div g) \div 2
  IN IF h >= g THEN g ELSE SqrtIter(n, h)

\* floor(sqrt(n))
ISqrt(n) == IF n < 2 THEN n ELSE SqrtIter(n, n)

\* Math.sqrt / Math.hypot: sqrt(n) rounded to the nearest integer.
Sqrt(n) == (ISqrt(4 * n) + 1) \div 2

Min(a, b) == IF a < b THEN a ELSE b
Max(a, b) == IF a > b THEN a ELSE b
Abs(a) == IF a < 0 THEN -a ELSE a

\* A double carries a fixed number of significant bits (53); the model's
\* numbers carry 12: an integer below Significand is exact, a larger one is a
\* multiple of its unit in the last place.
Significand == 4096

RECURSIVE UlpOf(_)
UlpOf(a) == IF a < Significand THEN 1 ELSE 2 * UlpOf(a \div 2)

\* The representable number nearest to x: what a sum or product is stored as.
Fl(x) ==
  LET u == UlpOf(Abs(x))
  IN IF x >= 0 THEN RDiv(x, u) * u ELSE -(RDiv(-x, u) * u)

Pt(px, py) == [x |-> px * Scale, y |-> py * Scale]

RECURSIVE SumSeq(_)
SumSeq(s) == IF s = <<>> THEN 0 ELSE Head(s) + SumSeq(Tail(s))

\* Array.prototype.splice(k, 0, q) at 0-based k = at - 1.
InsertAt(s, at, q) == SubSeq(s, 1, at - 1) \o <<q>> \o SubSeq(s, at, Len(s))

----------------------------------------------------------------------------
\* Path metrics

distance(p1, p2) ==
  Sqrt((p1.x - p2.x) * (p1.x - p2.x) + (p1.y - p2.y) * (p1.y - p2.y))

getPathLength(points) ==
  SumSeq([k \in 1..(Len(points) - 1) |-> distance(points[k], points[k + 1])])

RECURSIVE FoldMin(_, _)
FoldMin(s, acc) == IF s = <<>> THEN acc ELSE FoldMin(Tail(s), Min(acc, Head(s)))
RECURSIVE FoldMax(_, _)
FoldMax(s, acc) == IF s = <<>> THEN acc ELSE FoldMax(Tail(s), Max(acc, Head(s)))

getBoundingBox(points) ==
  IF Len(points) = 0 THEN [x |-> 0, y |-> 0, width |-> 0, height |-> 0]
  ELSE LET xs == [k \in 1..Len(points) |-> points[k].x]
           ys == [k \in 1..Len(points) |-> points[k].y]
           minX == FoldMin(xs, xs[1])
           minY == FoldMin(ys, ys[1])
           maxX == FoldMax(xs, xs[1])
           maxY == FoldMax(ys, ys[1])
       IN [x |-> minX, y |-> minY, width |-> maxX - minX, height |-> maxY - minY]

\* Twice the polygon area (the shoelace sum before the halving), in units^2.
getPolygonArea2(points) ==
  LET n == Len(points)
      term(k) == LET j == (k % n) + 1
                 IN points[k].x * points[j].y - points[j].x * points[k].y
  IN Abs(SumSeq([k \in 1..n |-> term(k)]))

----------------------------------------------------------------------------
\* resample

\* The loop's state on entry (lines 40-41 and i = 1).
ResampleEnter(points) ==
  [points |-> points, newPoints |-> <<points[1]>>, currentDist |-> 0, i |-> 1]

\* One iteration of the loop body with i++ (lines 43-58) on frame f.
ResampleIterNoSplice(f, sp) ==
  LET pt1 == f.points[f.i]
      pt2 == f.points[f.i + 1]
      d == distance(pt1, pt2)
  IN IF f.currentDist + d >= sp
     THEN LET q == [x |-> Fl(pt1.x + RDiv((sp - f.currentDist) * (pt2.x - pt1.x), d)),
                    y |-> Fl(pt1.y + RDiv((sp - f.currentDist) * (pt2.y - pt1.y), d))]
          IN [points |-> f.points,
              newPoints |-> Append(f.newPoints, q),
              currentDist |-> 0,
              i |-> f.i + 1]
     ELSE [f EXCEPT !.currentDist = @ + d, !.i = @ + 1]

ResampleIter(f, sp) ==
  LET pt1 == f.points[f.i]
      pt2 == f.points[f.i + 1]
      d == distance(pt1, pt2)
  IN IF f.currentDist + d >= sp
     THEN LET q == [x |-> Fl(pt1.x + RDiv((sp - f.currentDist) * (pt2.x - pt1.x), d)),
                    y |-> Fl(pt1.y + RDiv((sp - f.currentDist) * (pt2.y - pt1.y), d))]
          IN [points |-> InsertAt(f.points, f.i + 1, q),
              newPoints |-> Append(f.newPoints, q),
              currentDist |-> 0,
              i |-> f.i + 1]
     ELSE [f EXCEPT !.currentDist = @ + d, !.i = @ + 1]

RECURSIVE ResampleLoop(_, _)
ResampleLoop(f, sp) ==
  IF f.i < Len(f.points) THEN ResampleLoop(ResampleIter(f, sp), sp) ELSE f

\* resample(points, spacing): the returned array and the argument array afterwards.
resample(points, sp) ==
  IF Len(points) < 2 THEN [result |-> points, points |-> points]
  ELSE LET f == ResampleLoop(ResampleEnter(points), sp)
       IN [result |-> f.newPoints, points |-> f.points]

----------------------------------------------------------------------------
\* getCorners (ShortStraw corner detection)

\* Window size.
W == 3

\* straws[k] for a 0-based index k with W <= k < n - W.
Straw(points, k) == distance(points[k - W + 1], points[k + W + 1])

\* straws[k] < windowArc * 0.95, windowArc = 2 * W * avgSpacing and avgSpacing
\* the path length over n - 1: both sides multiplied by 100 * (n - 1).
BelowThreshold(points, k) ==
  Straw(points, k) * (Len(points) - 1) * 100 < 2 * W * 95 * getPathLength(points)

IsLocalMinimum(points, k) ==
  /\ Straw(points, k) < Straw(points, k - 1)
  /\ Straw(points, k) < Straw(points, k + 1)

\* getCorners with the minima sought over every index that has a straw,
\* W..n-W-1, a missing neighbour not counting against the index.
GetCornersOverEveryStraw(points) ==
  IF Len(points) < 10 THEN <<>>
  ELSE LET n == Len(points)
           candidates == [j \in 1..(n - 2 * W) |-> W + j - 1]
           keep(k) == /\ k = W \/ Straw(points, k) < Straw(points, k - 1)
                      /\ k = n - W - 1 \/ Straw(points, k) < Straw(points, k + 1)
                      /\ BelowThreshold(points, k)
       IN SelectSeq(candidates, keep)

\* The corner indices (0-based), ascending.
getCorners(points) ==
  IF Len(points) < 10 THEN <<>>
  ELSE LET n == Len(points)
           candidates == [j \in 1..(n - 2 * W - 2) |-> W + j]
           keep(k) == IsLocalMinimum(points, k) /\ BelowThreshold(points, k)
       IN SelectSeq(candidates, keep)

----------------------------------------------------------------------------
\* distToSegment and getTriangleVertices

distToSegment(p, v, w) ==
  LET l2 == distance(v, w) * distance(v, w)
  IN IF l2 = 0 THEN distance(p, v)
     ELSE LET dot == (p.x - v.x) * (w.x - v.x) + (p.y - v.y) * (w.y - v.y)
              t == Max(0, Min(TScale, RDiv(dot * TScale, l2)))
          IN distance(p, [x |-> v.x + RDiv(t * (w.x - v.x), TScale),
                          y |-> v.y + RDiv(t * (w.y - v.y), TScale)])

\* let best = points[0]; maxD = -1; points.forEach(p => { if (d(p) > maxD) ... })
\* with the distances d given as a sequence ds aligned with points.
RECURSIVE Furthest(_, _, _, _, _)
Furthest(points, ds, k, best, maxD) ==
  IF k > Len(points) THEN best
  ELSE IF ds[k] > maxD THEN Furthest(points, ds, k + 1, points[k], ds[k])
       ELSE Furthest(points, ds, k + 1, best, maxD)

FurthestOf(points, ds) == Furthest(points, ds, 1, points[1], -1)

getTriangleVertices(points) ==
  IF Len(points) < 3 THEN points
  ELSE LET n == Len(points)
           center == [x |-> RDiv(SumSeq([k \in 1..n |-> points[k].x]), n),
                      y |-> RDiv(SumSeq([k \in 1..n |-> points[k].y]), n)]
           p1 == FurthestOf(points, [k \in 1..n |-> distance(points[k], center)])
           p2 == FurthestOf(points, [k \in 1..n |-> distance(points[k], p1)])
           p3 == FurthestOf(points, [k \in 1..n |-> distToSegment(points[k], p1, p2)])
       IN <<p1, p2, p3>>

----------------------------------------------------------------------------
\* detectShape

Null == [type |-> "null"]

\* The early returns of lines 152-165: "short", "LINE", "open", or "closed" when
\* the stroke goes on to resampling.  len * 0.85 and len * 0.3 are compared after
\* multiplying both sides by 100 and by 10.
GateLineAfterClosure(points) ==
  IF Len(points) < 10 THEN "short"
  ELSE LET len == getPathLength(points)
           dist == distance(points[1], points[Len(points)])
       IN IF dist * 10 > len * 3 THEN "open"
          ELSE IF dist * 100 > len * 85 THEN "LINE"
          ELSE "closed"

GateShortBelow9(points) ==
  IF Len(points) < 9 THEN "short"
  ELSE LET len == getPathLength(points)
           dist == distance(points[1], points[Len(points)])
       IN IF dist * 100 > len * 85 THEN "LINE"
          ELSE IF dist * 10 > len * 3 THEN "open"
          ELSE "closed"

Gate(points) ==
  IF Len(points) < 10 THEN "short"
  ELSE LET len == getPathLength(points)
           dist == distance(points[1], points[Len(points)])
       IN IF dist * 100 > len * 85 THEN "LINE"
          ELSE IF dist * 10 > len * 3 THEN "open"
          ELSE "closed"

\* Math.max(5, diag / 40), 5 pixels being 5 * Scale units.
SpacingOf(points) ==
  LET bbox == getBoundingBox(points)
      diag == Sqrt(bbox.width * bbox.width + bbox.height * bbox.height)
  IN Max(5 * Scale, RDiv(diag, 40))

\* Lines 183-188: keep corners[0] and every corner more than 3 after its predecessor.
MergeAdjacent(cs) ==
  IF Len(cs) = 0 THEN <<>>
  ELSE LET rest == [k \in 1..(Len(cs) - 1) |-> k + 1]
           far(k) == cs[k] - cs[k - 1] > 3
       IN <<cs[1]>> \o [k \in 1..Len(SelectSeq(rest, far)) |-> cs[SelectSeq(rest, far)[k]]]

\* Lines 189-195: drop the last corner when it and the first straddle the seam.
DropWrapAround(cc, n) ==
  IF Len(cc) > 1 /\ (n - cc[Len(cc)]) + cc[1] < 4
  THEN SubSeq(cc, 1, Len(cc) - 1)
  ELSE cc

CleanCorners(cs, n) == DropWrapAround(MergeAdjacent(cs), n)

\* A ratio is kept as a fraction num/den, den > 0, and compared by cross-multiplying.
Below(r, percent) == r.num * 100 < percent * r.den
Above(r, percent) == r.num * 100 > percent * r.den

RadiusRatio(points) ==
  LET bbox == getBoundingBox(points)
      center == [x |-> bbox.x + RDiv(bbox.width, 2), y |-> bbox.y + RDiv(bbox.height, 2)]
      n == Len(points)
      radii == [k \in 1..n |-> distance(points[k], center)]
      meanRadius == RDiv(SumSeq(radii), n)
      variance == RDiv(SumSeq([k \in 1..n |->
                        (radii[k] - meanRadius) * (radii[k] - meanRadius)]), n)
      stdDev == Sqrt(variance)
  IN IF meanRadius > 0 THEN [num |-> stdDev, den |-> meanRadius]
     ELSE [num |-> 1, den |-> 1]

AreaRatio(points) ==
  LET bbox == getBoundingBox(points)
      polyArea2 == getPolygonArea2(points)
      boxArea == bbox.width * bbox.height
  IN IF boxArea > 0 THEN [num |-> polyArea2, den |-> 2 * boxArea]
     ELSE [num |-> 0, den |-> 1]

Triangle(pts) == [type |-> "TRIANGLE", points |-> pts]
Shape(t) == [type |-> t]

\* Lines 198-244, on the stroke, the resampled points and the cleaned corners.
ClassifyRatiosFirst(points, resampled, cc) ==
  LET cornerCount == Len(cc)
      radiusRatio == RadiusRatio(points)
      areaRatio == AreaRatio(points)
  IN IF cornerCount = 0 /\ Below(radiusRatio, 25) THEN Shape("CIRCLE")
     ELSE IF Below(radiusRatio, 20) THEN Shape("CIRCLE")
     ELSE IF cornerCount = 3
          THEN Triangle([k \in 1..3 |-> resampled[cc[k] + 1]])
     ELSE IF cornerCount = 4 THEN Shape("SQUARE")
     ELSE IF Above(areaRatio, 80) THEN Shape("SQUARE")
     ELSE IF Below(areaRatio, 65) THEN Triangle(getTriangleVertices(resampled))
     ELSE Shape("SQUARE")

ClassifyStrict(points, resampled, cc) ==
  LET cornerCount == Len(cc)
      radiusRatio == RadiusRatio(points)
      areaRatio == AreaRatio(points)
  IN IF cornerCount = 3
     THEN Triangle([k \in 1..3 |-> resampled[cc[k] + 1]])
     ELSE IF cornerCount = 4 THEN Shape("SQUARE")
     ELSE IF cornerCount = 0 /\ Below(radiusRatio, 25) THEN Shape("CIRCLE")
     ELSE IF Below(radiusRatio, 20) THEN Shape("CIRCLE")
     ELSE IF Above(areaRatio, 80) THEN Shape("SQUARE")
     ELSE IF Below(areaRatio, 65) THEN Triangle(getTriangleVertices(resampled))
     ELSE IF cornerCount = 5 THEN Shape("SQUARE")
     ELSE Null

Classify(points, resampled, cc) ==
  LET cornerCount == Len(cc)
      radiusRatio == RadiusRatio(points)
      areaRatio == AreaRatio(points)
  IN IF cornerCount = 3
     THEN Triangle([k \in 1..3 |-> resampled[cc[k] + 1]])
     ELSE IF cornerCount = 4 THEN Shape("SQUARE")
     ELSE IF cornerCount = 0 /\ Below(radiusRatio, 25) THEN Shape("CIRCLE")
     ELSE IF Below(radiusRatio, 20) THEN Shape("CIRCLE")
     ELSE IF Above(areaRatio, 80) THEN Shape("SQUARE")
     ELSE IF Below(areaRatio, 65) THEN Triangle(getTriangleVertices(resampled))
     ELSE IF cornerCount = 5 THEN Shape("SQUARE")
     ELSE Shape("SQUARE")

\* closedPoints = [...points]; closedPoints.push(points[0])
CloseLoop(points) == Append(points, points[1])

\* detectShape as a function of the stroke: the whole call at once.
detectShape(points) ==
  LET g == Gate(points)
  IN IF g = "short" \/ g = "open" THEN Null
     ELSE IF g = "LINE" THEN Shape("LINE")
     ELSE LET resampled == resample(CloseLoop(points), SpacingOf(points)).result
              cc == CleanCorners(getCorners(resampled), Len(resampled))
          IN Classify(points, resampled, cc)

----------------------------------------------------------------------------
\* The strokes the pointer can trace, in whole pixels: a pointer-down point
\* followed by the pointer-move points.  A stroke may end after any of them.

Line ==
  <<<<0, 0>>, <<5, 0>>, <<10, 0>>, <<15, 0>>, <<20, 0>>, <<25, 0>>,
    <<30, 0>>, <<35, 0>>, <<40, 0>>, <<45, 0>>, <<50, 0>>>>

Dot ==
  <<<<20, 20>>, <<20, 20>>, <<20, 20>>, <<20, 20>>, <<20, 20>>, <<20, 20>>,
    <<20, 20>>, <<20, 20>>, <<20, 20>>, <<20, 20>>, <<20, 20>>, <<20, 20>>>>

BoxFromCorner ==
  <<<<0, 0>>, <<5, 0>>, <<10, 0>>, <<15, 0>>, <<20, 0>>, <<25, 0>>,
    <<30, 0>>, <<30, 5>>, <<30, 10>>, <<30, 15>>, <<30, 20>>, <<30, 25>>,
    <<30, 30>>, <<25, 30>>, <<20, 30>>, <<15, 30>>, <<10, 30>>, <<5, 30>>,
    <<0, 30>>, <<0, 25>>, <<0, 20>>, <<0, 15>>, <<0, 10>>, <<0, 5>>,
    <<0, 0>>>>

Flag ==
  <<<<20, 20>>, <<20, 25>>, <<20, 30>>, <<20, 35>>, <<20, 40>>, <<15, 40>>,
    <<10, 40>>, <<5, 40>>, <<0, 40>>, <<5, 40>>, <<10, 40>>, <<15, 40>>,
    <<20, 40>>, <<25, 35>>, <<30, 30>>, <<35, 25>>, <<40, 20>>>>

Knot ==
  <<<<20, 20>>, <<25, 20>>, <<30, 20>>, <<25, 20>>, <<20, 20>>, <<20, 15>>,
    <<20, 10>>, <<20, 5>>, <<20, 0>>, <<25, 5>>, <<30, 10>>, <<30, 15>>,
    <<30, 20>>, <<25, 20>>, <<20, 20>>, <<15, 20>>, <<10, 20>>, <<15, 15>>,
    <<20, 10>>, <<25, 5>>, <<30, 0>>, <<25, 5>>, <<20, 10>>>>

Hook ==
  <<<<20, 20>>, <<20, 25>>, <<20, 30>>, <<20, 35>>, <<20, 40>>, <<25, 40>>,
    <<30, 40>>, <<30, 35>>, <<30, 30>>, <<30, 25>>, <<30, 20>>, <<25, 20>>>>

Zigzag ==
  <<<<20, 20>>, <<15, 15>>, <<10, 10>>, <<15, 10>>, <<20, 10>>, <<15, 15>>,
    <<10, 20>>, <<10, 25>>, <<10, 30>>, <<10, 35>>, <<10, 40>>, <<15, 40>>,
    <<20, 40>>, <<20, 35>>, <<20, 30>>>>

Bowtie ==
  <<<<20, 20>>, <<15, 25>>, <<10, 30>>, <<15, 25>>, <<20, 20>>, <<25, 15>>,
    <<30, 10>>, <<30, 15>>, <<30, 20>>, <<30, 25>>, <<30, 30>>, <<25, 25>>>>

Spiral ==
  <<<<10, 20>>, <<10, 25>>, <<10, 30>>, <<10, 35>>, <<10, 40>>, <<15, 40>>,
    <<20, 40>>, <<25, 40>>, <<30, 40>>, <<35, 40>>, <<35, 35>>, <<35, 30>>,
    <<35, 25>>, <<35, 20>>, <<35, 15>>, <<30, 15>>, <<25, 15>>, <<20, 15>>,
    <<15, 15>>, <<20, 20>>, <<25, 25>>, <<30, 30>>, <<35, 35>>, <<40, 40>>>>

Blob ==
  <<<<30, 30>>, <<25, 30>>, <<20, 30>>, <<20, 35>>, <<20, 40>>, <<20, 45>>,
    <<25, 45>>, <<30, 45>>, <<35, 45>>, <<35, 40>>, <<35, 35>>>>

Gestures == <<Line, Dot, BoxFromCorner, Flag, Knot, Hook, Zigzag, Bowtie, Spiral, Blob>>

\* The first n points of gesture g, as Points.
Stroke(g, n) == [k \in 1..n |-> Pt(Gestures[g][k][1], Gestures[g][k][2])]

----------------------------------------------------------------------------
\* One call, step by step

\* How many times detectShape is called on the same array.
MaxCalls == 2

\* Longest output a call of resample is followed to.
MaxEmitted == 48

\* const closedPoints = [...points]: the copy is an array of its own.
ClosedArrayAliased == "points"

ClosedArray == "closedPoints"

CallIdle ==
  /\ pc = "idle" /\ caller = "none" /\ input = <<>>
  /\ heap = [points |-> <<>>, closedPoints |-> <<>>]
  /\ walk = "points" /\ spacing = 0 /\ i = 0 /\ currentDist = 0
  /\ newPoints = <<>> /\ corners = <<>> /\ cleanCorners = <<>>
  /\ verdict = Null /\ calls = 0 /\ firstVerdict = Null

\* Lines 152-175: the gates, the spacing and the closed copy.
DetectGate ==
  /\ pc = "detect"
  /\ LET g == Gate(heap.points)
     IN IF g = "closed"
        THEN /\ heap' = [heap EXCEPT ![ClosedArray] = CloseLoop(heap.points)]
             /\ walk' = ClosedArray
             /\ spacing' = SpacingOf(heap.points)
             /\ pc' = "resample"
             /\ UNCHANGED verdict
        ELSE /\ verdict' = IF g = "LINE" THEN Shape("LINE") ELSE Null
             /\ pc' = "done"
             /\ UNCHANGED <<heap, walk, spacing>>
  /\ newPoints' = <<>> /\ corners' = <<>> /\ cleanCorners' = <<>>
  /\ UNCHANGED <<caller, input, i, currentDist, calls, firstVerdict, appVars, oracleVars>>

\* Lines 38-41: resample's early return, or the loop's entry.
ResampleCall ==
  /\ pc = "resample"
  /\ IF Len(heap[walk]) < 2
     THEN /\ newPoints' = heap[walk]
          /\ pc' = "returned"
          /\ UNCHANGED <<i, currentDist>>
     ELSE /\ newPoints' = ResampleEnter(heap[walk]).newPoints
          /\ currentDist' = ResampleEnter(heap[walk]).currentDist
          /\ i' = ResampleEnter(heap[walk]).i
          /\ pc' = "loop"
  /\ UNCHANGED <<caller, input, heap, walk, spacing, corners, cleanCorners,
                 verdict, calls, firstVerdict, appVars, oracleVars>>

\* Lines 43-58: one iteration of the loop.
ResampleStep ==
  /\ pc = "loop"
  /\ i < Len(heap[walk])
  /\ Len(newPoints) < MaxEmitted
  /\ LET f == ResampleIter([points |-> heap[walk], newPoints |-> newPoints,
                            currentDist |-> currentDist, i |-> i], spacing)
     IN /\ heap' = [heap EXCEPT ![walk] = f.points]
        /\ newPoints' = f.newPoints
        /\ currentDist' = f.currentDist
        /\ i' = f.i
  /\ UNCHANGED <<pc, caller, input, walk, spacing, corners, cleanCorners,
                 verdict, calls, firstVerdict, appVars, oracleVars>>

\* Line 59: the loop is over and newPoints is returned.
ResampleReturn ==
  /\ pc = "loop"
  /\ ~(i < Len(heap[walk]))
  /\ pc' = IF caller = "detectShape" THEN "corners" ELSE "returned"
  /\ UNCHANGED <<caller, input, heap, walk, spacing, i, currentDist, newPoints,
                 corners, cleanCorners, verdict, calls, firstVerdict, appVars, oracleVars>>

\* Lines 178-196: the corners of the resampled points, then the cleaning.
FindCorners ==
  /\ pc = "corners"
  /\ corners' = getCorners(newPoints)
  /\ cleanCorners' = CleanCorners(getCorners(newPoints), Len(newPoints))
  /\ pc' = "classify"
  /\ UNCHANGED <<caller, input, heap, walk, spacing, i, currentDist, newPoints,
                 verdict, calls, firstVerdict, appVars, oracleVars>>

\* Lines 198-244: the verdict.
ClassifyStep ==
  /\ pc = "classify"
  /\ verdict' = Classify(heap.points, newPoints, cleanCorners)
  /\ pc' = "done"
  /\ UNCHANGED <<caller, input, heap, walk, spacing, i, currentDist, newPoints,
                 corners, cleanCorners, calls, firstVerdict, appVars, oracleVars>>

\* The caller hands the same array to detectShape once more.
DetectAgain ==
  /\ pc = "done"
  /\ caller = "detectShape"
  /\ calls < MaxCalls
  /\ calls' = calls + 1
  /\ firstVerdict' = IF calls = 1 THEN verdict ELSE firstVerdict
  /\ pc' = "detect"
  /\ UNCHANGED <<caller, input, heap, walk, spacing, i, currentDist, newPoints,
                 corners, cleanCorners, verdict, appVars, oracleVars>>

----------------------------------------------------------------------------
\* The App component: state after construction (lines 21-30)

\* COLORS[0] and COLORS[1] (white and red chalk).
DEFAULT_COLOR == "#ffffff"
OTHER_COLOR == "#fca5a5"

DEFAULT_STROKE_WIDTH == 4

NoElement == [type |-> "null"]

AppIdle ==
  /\ elements = <<>> /\ history = <<>> /\ historyStep = 0
  /\ currentTool = "PEN"
  /\ currentColor = DEFAULT_COLOR
  /\ currentWidth = DEFAULT_STROKE_WIDTH
  /\ currentElement = NoElement
  /\ isDrawing = FALSE
  /\ pending = <<>>
  /\ nextId = 1
  /\ gesture = [script |-> 0, n |-> 0]
  /\ lastOp = [op |-> "none"]

\* No remote call has been made.
NoRequest == "none"

OracleIdle == oracle = [state |-> "none", request |-> NoRequest, text |-> ""]

----------------------------------------------------------------------------
\* detectShape called on every stroke the pointer can trace

InitDetect ==
  /\ AppIdle
  /\ OracleIdle
  /\ env = [scripts |-> {}, adds |-> 0]
  /\ \E g \in 1..Len(Gestures) : \E n \in 0..Len(Gestures[g]) :
       /\ input = Stroke(g, n)
       /\ heap = [points |-> Stroke(g, n), closedPoints |-> <<>>]
  /\ pc = "detect" /\ caller = "detectShape" /\ calls = 1
  /\ walk = "points" /\ spacing = 0 /\ i = 0 /\ currentDist = 0
  /\ newPoints = <<>> /\ corners = <<>> /\ cleanCorners = <<>>
  /\ verdict = Null /\ firstVerdict = Null

NextDetect ==
  \/ DetectGate
  \/ ResampleCall
  \/ ResampleStep
  \/ ResampleReturn
  \/ FindCorners
  \/ ClassifyStep
  \/ DetectAgain

SpecDetect == InitDetect /\ [][NextDetect]_vars

----------------------------------------------------------------------------
\* resample called on short point lists

\* Longest point list handed to resample.
MaxResampleLen == 3

\* Coordinates (pixels) of the points handed to resample.
ResamplePoints == {Pt(0, 0), Pt(3, 4), Pt(5, 0), Pt(12, 0), Pt(4, 9)}

\* Spacings (pixels) handed to resample.
ResampleSpacings == {5 * Scale, 7 * Scale}

RECURSIVE SeqsUpTo(_, _)
SeqsUpTo(S, n) ==
  IF n = 0 THEN {<<>>}
  ELSE LET shorter == SeqsUpTo(S, n - 1)
       IN shorter \cup {Append(q, e) : q \in {r \in shorter : Len(r) = n - 1}, e \in S}

InitResample ==
  /\ AppIdle
  /\ OracleIdle
  /\ env = [scripts |-> {}, adds |-> 0]
  /\ \E pts \in SeqsUpTo(ResamplePoints, MaxResampleLen) :
       /\ input = pts
       /\ heap = [points |-> pts, closedPoints |-> <<>>]
  /\ spacing \in ResampleSpacings
  /\ pc = "resample" /\ caller = "resample" /\ calls = 0
  /\ walk = "points" /\ i = 0 /\ currentDist = 0
  /\ newPoints = <<>> /\ corners = <<>> /\ cleanCorners = <<>>
  /\ verdict = Null /\ firstVerdict = Null

NextResample ==
  \/ ResampleCall
  \/ ResampleStep
  \/ ResampleReturn

SpecResample == InitResample /\ [][NextResample]_vars

----------------------------------------------------------------------------
\* The App component: handlers

\* What the user traces: a gesture and the number of its points after which
\* the pointer is lifted.
Scripts ==
  <<[g |-> 1, n |-> 3], [g |-> 1, n |-> 10], [g |-> 6, n |-> 10],
    [g |-> 10, n |-> 11], [g |-> 8, n |-> 10], [g |-> 2, n |-> 10]>>

\* Additions to the board in a run of the board specification.
MaxAdds == 3

\* Strokes in a run of the stroke specification.
MaxStrokes == 1

\* Images in one paste.
MaxItems == 2

\* Elements created so far or about to be: every id handed out, every image load
\* still to come.
Created == (nextId - 1) + Len(pending)

ScriptPoint(sc, k) == Pt(Gestures[Scripts[sc].g][k][1], Gestures[Scripts[sc].g][k][2])

\* Lines 33-39, as a function of the closure's history and historyStep:
\* history.slice(0, historyStep + 1), push, and the three setters.
SaveToHistoryNoTruncate(newElements, hist, step) ==
  [history |-> Append(hist, newElements),
   historyStep |-> Len(hist),
   elements |-> newElements]

\* saveToHistory with setHistoryStep(newHistory.length): one past the snapshot.
SaveToHistoryStepPastEnd(newElements, hist, step) ==
  LET newHistory == Append(SubSeq(hist, 1, Min(step + 1, Len(hist))), newElements)
  IN [history |-> newHistory,
      historyStep |-> Len(newHistory),
      elements |-> newElements]

saveToHistory(newElements, hist, step) ==
  LET newHistory == Append(SubSeq(hist, 1, Min(step + 1, Len(hist))), newElements)
  IN [history |-> newHistory,
      historyStep |-> Len(newHistory) - 1,
      elements |-> newElements]

\* Lines 173-197: the element that replaces a freehand element el for a verdict.
FinalizedWithVertices(el, shape) ==
  LET box == getBoundingBox(el.points)
  IN IF shape = Null THEN el
     ELSE IF shape.type = "LINE"
     THEN [id |-> el.id, type |-> "LINE", color |-> el.color,
           strokeWidth |-> el.strokeWidth,
           start |-> el.points[1], end |-> el.points[Len(el.points)]]
     ELSE IF shape.type = "TRIANGLE"
     THEN [id |-> el.id, type |-> shape.type, color |-> el.color,
           strokeWidth |-> el.strokeWidth,
           x |-> box.x, y |-> box.y, width |-> box.width, height |-> box.height,
           points |-> shape.points]
     ELSE [id |-> el.id, type |-> shape.type, color |-> el.color,
           strokeWidth |-> el.strokeWidth,
           x |-> box.x, y |-> box.y, width |-> box.width, height |-> box.height]

Finalized(el, shape) ==
  LET box == getBoundingBox(el.points)
  IN IF shape = Null THEN el
     ELSE IF shape.type = "LINE"
     THEN [id |-> el.id, type |-> "LINE", color |-> el.color,
           strokeWidth |-> el.strokeWidth,
           start |-> el.points[1], end |-> el.points[Len(el.points)]]
     ELSE IF shape.type \in {"SQUARE", "CIRCLE", "TRIANGLE"}
     THEN [id |-> el.id, type |-> shape.type, color |-> el.color,
           strokeWidth |-> el.strokeWidth,
           x |-> box.x, y |-> box.y, width |-> box.width, height |-> box.height]
     ELSE el

\* Toolbar: setTool, setColor, setWidth (the pointer is captured while drawing).
SetTool ==
  /\ ~isDrawing
  /\ \E t \in {"PEN", "ERASER", "TEXT"} : t # currentTool /\ currentTool' = t
  /\ lastOp' = [op |-> "setTool"]
  /\ UNCHANGED <<elements, history, historyStep, currentColor, currentWidth,
                 currentElement, isDrawing, pending, nextId, gesture, env, callVars, oracleVars>>

SetColor ==
  /\ ~isDrawing
  /\ \E c \in {DEFAULT_COLOR, OTHER_COLOR} : c # currentColor /\ currentColor' = c
  /\ lastOp' = [op |-> "setColor"]
  /\ UNCHANGED <<elements, history, historyStep, currentTool, currentWidth,
                 currentElement, isDrawing, pending, nextId, gesture, env, callVars, oracleVars>>

SetWidth ==
  /\ ~isDrawing
  /\ \E w \in {DEFAULT_STROKE_WIDTH, 2 * DEFAULT_STROKE_WIDTH} :
       w # currentWidth /\ currentWidth' = w
  /\ lastOp' = [op |-> "setWidth"]
  /\ UNCHANGED <<elements, history, historyStep, currentTool, currentColor,
                 currentElement, isDrawing, pending, nextId, gesture, env, callVars, oracleVars>>

\* Lines 124-140.  One pointer: it goes down only when it is up.
HandlePointerDown ==
  /\ ~isDrawing
  /\ Created < env.adds
  /\ \E sc \in env.scripts :
       /\ gesture' = [script |-> sc, n |-> 1]
       /\ isDrawing' = TRUE
       /\ IF currentTool \in {"PEN", "ERASER"}
          THEN /\ currentElement' =
                    [id |-> nextId,
                     type |-> IF currentTool = "ERASER" THEN "ERASER" ELSE "FREEHAND",
                     points |-> <<ScriptPoint(sc, 1)>>,
                     color |-> IF currentTool = "ERASER" THEN "#000000" ELSE currentColor,
                     strokeWidth |-> IF currentTool = "ERASER" THEN 30 ELSE currentWidth]
               /\ nextId' = nextId + 1
          ELSE UNCHANGED <<currentElement, nextId>>
  /\ lastOp' = [op |-> "pointerDown"]
  /\ UNCHANGED <<elements, history, historyStep, currentTool, currentColor,
                 currentWidth, pending, env, callVars, oracleVars>>

\* Lines 142-155.
HandlePointerMove ==
  /\ isDrawing
  /\ gesture.n < Scripts[gesture.script].n
  /\ gesture' = [gesture EXCEPT !.n = @ + 1]
  /\ IF currentElement # NoElement /\ currentElement.type \in {"FREEHAND", "ERASER"}
     THEN currentElement' =
            [currentElement EXCEPT
               !.points = Append(@, ScriptPoint(gesture.script, gesture.n + 1))]
     ELSE UNCHANGED currentElement
  /\ lastOp' = [op |-> "pointerMove"]
  /\ UNCHANGED <<elements, history, historyStep, currentTool, currentColor,
                 currentWidth, isDrawing, pending, nextId, env, callVars, oracleVars>>

\* Lines 157-203.  The pointer is lifted at the end of the script.
HandlePointerUp ==
  /\ isDrawing
  /\ gesture.n = Scripts[gesture.script].n
  /\ isDrawing' = FALSE
  /\ gesture' = [script |-> 0, n |-> 0]
  /\ IF currentElement = NoElement
     THEN /\ lastOp' = [op |-> "pointerUp"]
          /\ UNCHANGED <<elements, history, historyStep, currentElement>>
     ELSE LET shape == IF currentElement.type = "FREEHAND"
                       THEN detectShape(currentElement.points)
                       ELSE Null
              finalizedElement == Finalized(currentElement, shape)
              saved == saveToHistory(Append(elements, finalizedElement),
                                     history, historyStep)
          IN /\ history' = saved.history
             /\ historyStep' = saved.historyStep
             /\ elements' = saved.elements
             /\ currentElement' = NoElement
             /\ lastOp' = [op |-> "add", by |-> "pointerUp",
                           board |-> elements, hist |-> history, step |-> historyStep,
                           drawn |-> currentElement, shape |-> shape]
  /\ UNCHANGED <<currentTool, currentColor, currentWidth, pending, nextId, env,
                 callVars, oracleVars>>

\* Lines 205-218, for a text that is blank or not.
HandleTextSubmit ==
  /\ \E text \in {"hi", " "} :
       IF text = " "
       THEN /\ lastOp' = [op |-> "textSubmit"]
            /\ UNCHANGED <<elements, history, historyStep, nextId>>
       ELSE /\ Created < env.adds
            /\ LET textEl == [id |-> nextId, type |-> "TEXT", x |-> 0, y |-> 0,
                              text |-> text, fontSize |-> currentWidth,
                              color |-> currentColor, strokeWidth |-> 1]
                   saved == saveToHistory(Append(elements, textEl), history, historyStep)
               IN /\ history' = saved.history
                  /\ historyStep' = saved.historyStep
                  /\ elements' = saved.elements
                  /\ lastOp' = [op |-> "add", by |-> "text",
                                board |-> elements, hist |-> history,
                                step |-> historyStep]
            /\ nextId' = nextId + 1
  /\ UNCHANGED <<currentTool, currentColor, currentWidth, currentElement, isDrawing,
                 pending, gesture, env, callVars, oracleVars>>

\* Lines 75-113: a paste of k image items starts k FileReaders.  Each callback
\* keeps the elements and the saveToHistory (with its history and historyStep)
\* of the render in which the paste handler was registered.
HandlePaste ==
  /\ \E k \in 1..MaxItems :
       /\ Created + k <= env.adds
       /\ pending' = pending \o
            [j \in 1..k |-> [stage |-> "reading", elements |-> elements,
                             history |-> history, historyStep |-> historyStep]]
  /\ lastOp' = [op |-> "paste"]
  /\ UNCHANGED <<elements, history, historyStep, currentTool, currentColor,
                 currentWidth, currentElement, isDrawing, nextId, gesture, env,
                 callVars, oracleVars>>

\* Lines 84-107: reader.onload creates the Image and sets its src.
ReaderLoad ==
  /\ \E j \in 1..Len(pending) :
       /\ pending[j].stage = "reading"
       /\ pending' = [pending EXCEPT ![j].stage = "decoding"]
  /\ lastOp' = [op |-> "readerLoad"]
  /\ UNCHANGED <<elements, history, historyStep, currentTool, currentColor,
                 currentWidth, currentElement, isDrawing, nextId, gesture, env,
                 callVars, oracleVars>>

\* Lines 87-105: img.onload, for an image of 600 x 400 in a window of 1000 x 800.
ImageLoad ==
  /\ \E j \in 1..Len(pending) :
       /\ pending[j].stage = "decoding"
       /\ LET c == pending[j]
              newImage == [id |-> nextId, type |-> "IMAGE",
                           x |-> 500 - 150, y |-> 400 - 100,
                           width |-> 300, height |-> 200,
                           color |-> "transparent", strokeWidth |-> 0,
                           dataUrl |-> "data:image/png"]
              saved == saveToHistory(Append(c.elements, newImage),
                                     c.history, c.historyStep)
          IN /\ history' = saved.history
             /\ historyStep' = saved.historyStep
             /\ elements' = saved.elements
             /\ lastOp' = [op |-> "add", by |-> "image",
                           board |-> elements, hist |-> history, step |-> historyStep]
       /\ pending' = SubSeq(pending, 1, j - 1) \o SubSeq(pending, j + 1, Len(pending))
  /\ nextId' = nextId + 1
  /\ UNCHANGED <<currentTool, currentColor, currentWidth, currentElement, isDrawing,
                 gesture, env, callVars, oracleVars>>

\* Lines 41-49.
Undo ==
  /\ IF historyStep > 0
     THEN /\ historyStep' = historyStep - 1
          /\ elements' = history[historyStep]
     ELSE IF historyStep = 0
     THEN /\ historyStep' = -1
          /\ elements' = <<>>
     ELSE UNCHANGED <<historyStep, elements>>
  /\ lastOp' = [op |-> "undo", board |-> elements, step |-> historyStep]
  /\ UNCHANGED <<history, currentTool, currentColor, currentWidth, currentElement,
                 isDrawing, pending, nextId, gesture, env, callVars, oracleVars>>

\* Lines 51-56.
Redo ==
  /\ IF historyStep < Len(history) - 1
     THEN /\ historyStep' = historyStep + 1
          /\ elements' = history[historyStep + 2]
     ELSE UNCHANGED <<historyStep, elements>>
  /\ lastOp' = [op |-> "redo", board |-> elements, step |-> historyStep]
  /\ UNCHANGED <<history, currentTool, currentColor, currentWidth, currentElement,
                 isDrawing, pending, nextId, gesture, env, callVars, oracleVars>>

\* The board: strokes, texts, pastes, undo and redo, the toolbar left alone.
Init ==
  /\ AppIdle
  /\ OracleIdle
  /\ CallIdle
  /\ env = [scripts |-> {1, 2}, adds |-> MaxAdds]

Next ==
  \/ HandlePointerDown
  \/ HandlePointerMove
  \/ HandlePointerUp
  \/ HandleTextSubmit
  \/ HandlePaste
  \/ ReaderLoad
  \/ ImageLoad
  \/ Undo
  \/ Redo

Spec == Init /\ [][Next]_vars

\* One stroke from pointer-down to pointer-up, drawn with any tool, color and width.
InitStroke ==
  /\ AppIdle
  /\ OracleIdle
  /\ CallIdle
  /\ env = [scripts |-> 1..Len(Scripts), adds |-> MaxStrokes]

NextStroke ==
  \/ SetTool
  \/ SetColor
  \/ SetWidth
  \/ HandlePointerDown
  \/ HandlePointerMove
  \/ HandlePointerUp

SpecStroke == InitStroke /\ [][NextStroke]_vars

----------------------------------------------------------------------------
\* isPointNearElement (src/utils/geometry.ts lines 257-314)

\* A path element; only the fields isPointNearElement reads.
PathEl(t, pts) == [type |-> t, points |-> pts]

LineEl(s, e) == [type |-> "LINE", start |-> s, end |-> e]

\* A box element (SQUARE, CIRCLE, TRIANGLE, IMAGE).  points is the optional
\* field of ShapeElement; <<>> stands for the field being absent.
BoxEl(t, bx, by, w, h, pts) ==
  [type |-> t, x |-> bx, y |-> by, width |-> w, height |-> h, points |-> pts]

\* text is kept by its length, the only thing the function reads of it.
TextEl(tx, ty, len, size) ==
  [type |-> "TEXT", x |-> tx, y |-> ty, textLength |-> len, fontSize |-> size]

\* Lines 260-265: the for loop over the segments, from segment k on.
RECURSIVE NearSomeSegment(_, _, _, _)
NearSomeSegment(points, point, threshold, k) ==
  IF ~(k < Len(points)) THEN FALSE
  ELSE IF distToSegment(point, points[k], points[k + 1]) < threshold THEN TRUE
       ELSE NearSomeSegment(points, point, threshold, k + 1)

\* Lines 272-273.
InBox(element, point) ==
  /\ point.x >= element.x /\ point.x <= element.x + element.width
  /\ point.y >= element.y /\ point.y <= element.y + element.height

\* Line 280 in IEEE arithmetic: a quotient with a zero divisor is NaN (0/0)
\* or +Infinity (positive/0), and a sum with a NaN term is NaN.  The finite
\* case keeps the value as the fraction num/den, with dx, dy, rx, ry doubled
\* so that width / 2 stays whole.
CircleVal(element, point) ==
  LET rx2 == element.width
      ry2 == element.height
      dx2 == 2 * (point.x - element.x) - element.width
      dy2 == 2 * (point.y - element.y) - element.height
      termX == IF rx2 # 0 THEN "finite" ELSE IF dx2 = 0 THEN "NaN" ELSE "Infinity"
      termY == IF ry2 # 0 THEN "finite" ELSE IF dy2 = 0 THEN "NaN" ELSE "Infinity"
  IN IF termX = "NaN" \/ termY = "NaN" THEN [kind |-> "NaN"]
     ELSE IF termX = "Infinity" \/ termY = "Infinity" THEN [kind |-> "Infinity"]
     ELSE [kind |-> "finite", dx2 |-> dx2, dy2 |-> dy2, rx2 |-> rx2, ry2 |-> ry2]

\* Line 281: val <= 1.  NaN <= 1 and Infinity <= 1 are false.  A term alone
\* above 1 settles the finite case before the products are formed.
CircleValAtMostOne(v) ==
  /\ v.kind = "finite"
  /\ Abs(v.dx2) <= Abs(v.rx2)
  /\ Abs(v.dy2) <= Abs(v.ry2)
  /\ v.dx2 * v.dx2 * v.ry2 * v.ry2 + v.dy2 * v.dy2 * v.rx2 * v.rx2
       <= v.rx2 * v.rx2 * v.ry2 * v.ry2

\* Lines 286-293: the stored vertices, or the triangle inscribed in the box.
TriangleOf(element) ==
  IF Len(element.points) = 3 THEN element.points
  ELSE << [x |-> element.x + RDiv(element.width, 2), y |-> element.y],
          [x |-> element.x, y |-> element.y + element.height],
          [x |-> element.x + element.width, y |-> element.y + element.height] >>

\* Line 295.
sign(p1, p2, p3) ==
  (p1.x - p3.x) * (p2.y - p3.y) - (p2.x - p3.x) * (p1.y - p3.y)

\* Lines 296-303.
InTriangle(tri, point) ==
  LET d1 == sign(point, tri[1], tri[2])
      d2 == sign(point, tri[2], tri[3])
      d3 == sign(point, tri[3], tri[1])
      hasNeg == (d1 < 0) \/ (d2 < 0) \/ (d3 < 0)
      hasPos == (d1 > 0) \/ (d2 > 0) \/ (d3 > 0)
  IN ~(hasNeg /\ hasPos)

\* Lines 306-309: estimatedHeight = fontSize * 1.5 and estimatedWidth =
\* length * fontSize * 0.6, compared after clearing the decimals.
InText(element, point) ==
  /\ point.x >= element.x
  /\ 10 * point.x <= 10 * element.x + element.textLength * element.fontSize * 6
  /\ point.y >= element.y - element.fontSize
  /\ 100 * point.y <= 100 * element.y + 75 * element.fontSize

isPointNearElement(element, point, threshold) ==
  CASE element.type = "FREEHAND" ->
         NearSomeSegment(element.points, point, threshold, 1)
    [] element.type = "LINE" ->
         distToSegment(point, element.start, element.end) < threshold
    [] element.type \in {"SQUARE", "IMAGE"} -> InBox(element, point)
    [] element.type = "CIRCLE" -> CircleValAtMostOne(CircleVal(element, point))
    [] element.type = "TRIANGLE" -> InTriangle(TriangleOf(element), point)
    [] element.type = "TEXT" -> InText(element, point)
    [] OTHER -> FALSE

----------------------------------------------------------------------------
\* isPointNearElement called on the elements a board can hold

\* Longest point list of a path element handed to isPointNearElement.
MaxPathLen == 3

\* Points (pixels) of the path elements.
HitPathPoints == {Pt(0, 0), Pt(20, 0), Pt(20, 20)}

\* Widths and heights (pixels) of the box elements, zero included: the box
\* of a stroke that never left a vertical or horizontal line.
HitBoxSizes == {0, 4 * Scale, 8 * Scale}

\* Stored vertex lists of triangle elements: absent, the triangle
\* (1,1),(5,1),(3,5) in both windings, three collinear vertices, one vertex.
HitVertexLists ==
  { <<>>,
    <<Pt(1, 1), Pt(5, 1), Pt(3, 5)>>,
    <<Pt(1, 1), Pt(3, 5), Pt(5, 1)>>,
    <<Pt(0, 0), Pt(2, 0), Pt(4, 0)>>,
    <<Pt(2, 2)>> }

HitElements ==
  {PathEl(t, pts) : t \in {"FREEHAND", "ERASER"},
                    pts \in SeqsUpTo(HitPathPoints, MaxPathLen)}
  \cup {LineEl(Pt(0, 0), Pt(20, 0)), LineEl(Pt(5, 5), Pt(5, 5))}
  \cup {BoxEl(t, 2 * Scale, 2 * Scale, w, h, <<>>) :
          t \in {"SQUARE", "CIRCLE", "TRIANGLE", "IMAGE"},
          w \in HitBoxSizes, h \in HitBoxSizes}
  \cup {BoxEl("TRIANGLE", Scale, Scale, 4 * Scale, 4 * Scale, pts) :
          pts \in HitVertexLists}
  \cup {TextEl(2 * Scale, 10 * Scale, 2, DEFAULT_STROKE_WIDTH * Scale)}

\* The query points tried on every element: on and off the path points, the
\* point (3, 2.3), a far point.
HitPoints ==
  {Pt(0, 0), Pt(10, 0), Pt(10, 9), Pt(10, 12), Pt(25, 0), Pt(3, 5), Pt(6, 0),
   [x |-> 3 * Scale, y |-> 23], Pt(3, 1), Pt(100, 100)}

\* The query points tried on a box element besides: its centre, its corners,
\* points just outside its box.
BoxPoints(e) ==
  { [x |-> e.x + e.width \div 2, y |-> e.y + e.height \div 2],
    [x |-> e.x, y |-> e.y],
    [x |-> e.x + e.width, y |-> e.y + e.height],
    [x |-> e.x + e.width + 1, y |-> e.y + e.height \div 2],
    [x |-> e.x + e.width \div 2, y |-> e.y - 1],
    [x |-> e.x - Scale, y |-> e.y + e.height + Scale] }

HitThresholds == {10 * Scale, 3 * Scale}

InitHit ==
  /\ AppIdle
  /\ OracleIdle
  /\ env = [scripts |-> {}, adds |-> 0]
  /\ \E e \in HitElements :
       \E q \in HitPoints \cup (IF "width" \in DOMAIN e THEN BoxPoints(e) ELSE {}) :
         \E th \in HitThresholds :
           input = [element |-> e, point |-> q, threshold |-> th]
  /\ pc = "hit" /\ caller = "isPointNearElement" /\ calls = 0
  /\ heap = [points |-> <<>>, closedPoints |-> <<>>]
  /\ walk = "points" /\ spacing = 0 /\ i = 0 /\ currentDist = 0
  /\ newPoints = <<>> /\ corners = <<>> /\ cleanCorners = <<>>
  /\ verdict = Null /\ firstVerdict = Null

\* Lines 257-314: the call returns its boolean.
HitTest ==
  /\ pc = "hit"
  /\ verdict' = [type |-> "boolean",
                 value |-> isPointNearElement(input.element, input.point,
                                              input.threshold)]
  /\ pc' = "returned"
  /\ UNCHANGED <<caller, input, heap, walk, spacing, i, currentDist, newPoints,
                 corners, cleanCorners, calls, firstVerdict, appVars, oracleVars>>

NextHit == HitTest

SpecHit == InitHit /\ [][NextHit]_vars

----------------------------------------------------------------------------
\* getTriangleVertices called on a point list and on a permutation of it

\* Longest point list handed to getTriangleVertices.
MaxVertexLen == 4

\* Points (pixels) of the lists: the corners of a square, and two others.
VertexPoints == {Pt(0, 0), Pt(4, 0), Pt(4, 4), Pt(0, 4), Pt(7, 3)}

\* The orders in which a caller can hand the same points over.
ReorderingsOf(s) ==
  LET n == Len(s)
      bijections == {f \in [1..n -> 1..n] : \A a, b \in 1..n : f[a] = f[b] => a = b}
  IN {[k \in 1..n |-> s[f[k]]] : f \in bijections}

InitVertices ==
  /\ AppIdle
  /\ OracleIdle
  /\ env = [scripts |-> {}, adds |-> 0]
  /\ \E pts \in SeqsUpTo(VertexPoints, MaxVertexLen) :
       \E perm \in ReorderingsOf(pts) :
         input = [points |-> pts, permutation |-> perm]
  /\ pc = "vertices" /\ caller = "getTriangleVertices" /\ calls = 0
  /\ heap = [points |-> <<>>, closedPoints |-> <<>>]
  /\ walk = "points" /\ spacing = 0 /\ i = 0 /\ currentDist = 0
  /\ newPoints = <<>> /\ corners = <<>> /\ cleanCorners = <<>>
  /\ verdict = Null /\ firstVerdict = Null

\* Lines 112-149, called on the list.
VerticesOfList ==
  /\ pc = "vertices"
  /\ calls = 0
  /\ verdict' = [type |-> "vertices", points |-> getTriangleVertices(input.points)]
  /\ firstVerdict' = verdict'
  /\ calls' = 1
  /\ UNCHANGED <<pc, caller, input, heap, walk, spacing, i, currentDist,
                 newPoints, corners, cleanCorners, appVars, oracleVars>>

\* Lines 112-149, called on the permutation.
VerticesOfPermutation ==
  /\ pc = "vertices"
  /\ calls = 1
  /\ verdict' = [type |-> "vertices",
                 points |-> getTriangleVertices(input.permutation)]
  /\ calls' = 2
  /\ pc' = "returned"
  /\ UNCHANGED <<caller, input, heap, walk, spacing, i, currentDist, newPoints,
                 corners, cleanCorners, firstVerdict, appVars, oracleVars>>

NextVertices ==
  \/ VerticesOfList
  \/ VerticesOfPermutation

SpecVertices == InitVertices /\ [][NextVertices]_vars

----------------------------------------------------------------------------
\* identifyShape (src/services/geminiService.ts lines 15-64)

\* Lines 18, 57, 62: the answer "no shape".
FailClosed == [isShape |-> FALSE, shapeType |-> "none"]

\* An image handed to identifyShape: a data URL with its header, or bare
\* base64 (header "none").
Image(h, d) == [header |-> h, data |-> d]

\* Line 25: the header is removed when it is that of a png, jpeg or jpg.
cleanBase64(image) ==
  IF image.header \in {"png", "jpeg", "jpg"} THEN Image("none", image.data)
  ELSE image

\* response.text when the response carries no text at all.
UndefinedText == "<undefined>"

\* What JSON.parse throws on a text that is not JSON.
SyntaxError == [error |-> "SyntaxError"]

\* Line 59: JSON.parse on the texts the remote call can answer with.  The
\* value parsed is returned as it is, whatever its shape.
JSONParse(text) ==
  CASE text = "{\"isShape\":true,\"shapeType\":\"triangle\"}" ->
         [isShape |-> TRUE, shapeType |-> "triangle"]
    [] text = "{\"shapeType\":\"circle\",\"isShape\":true}" ->
         [isShape |-> TRUE, shapeType |-> "circle"]
    [] text = "{\"isShape\":false,\"shapeType\":\"none\"}" ->
         [isShape |-> FALSE, shapeType |-> "none"]
    [] text = "{\"isShape\":true}" -> [isShape |-> TRUE]
    [] text = "{\"isShape\":\"yes\",\"shapeType\":\"circle\"}" ->
         [isShape |-> "yes", shapeType |-> "circle"]
    [] text = "{\"isShape\":true,\"shapeType\":\"hexagon\"}" ->
         [isShape |-> TRUE, shapeType |-> "hexagon"]
    [] text = "{}" -> [json |-> "empty object"]
    [] text = "null" -> [json |-> "null"]
    [] OTHER -> SyntaxError

\* The texts of a fulfilled remote call.
OracleTexts ==
  { UndefinedText, "",
    "{\"isShape\":true,\"shapeType\":\"triangle\"}",
    "{\"shapeType\":\"circle\",\"isShape\":true}",
    "{\"isShape\":false,\"shapeType\":\"none\"}",
    "{\"isShape\":true}",
    "{\"isShape\":\"yes\",\"shapeType\":\"circle\"}",
    "{\"isShape\":true,\"shapeType\":\"hexagon\"}",
    "{}", "null", "It looks like a triangle.", "{\"isShape\":tru" }

\* The images handed to identifyShape.
OracleImages ==
  {Image(h, d) : h \in {"none", "png", "jpeg", "jpg", "gif"},
                 d \in {"iVBORw0KGgo", "R0lGODlh"}}

InitOracle ==
  /\ AppIdle
  /\ OracleIdle
  /\ \E key \in BOOLEAN : \E img \in OracleImages :
       input = [apiKey |-> key, image |-> img]
  /\ pc = "identify" /\ caller = "identifyShape" /\ calls = 0
  /\ env = [scripts |-> {}, adds |-> 0]
  /\ heap = [points |-> <<>>, closedPoints |-> <<>>]
  /\ walk = "points" /\ spacing = 0 /\ i = 0 /\ currentDist = 0
  /\ newPoints = <<>> /\ corners = <<>> /\ cleanCorners = <<>>
  /\ verdict = Null /\ firstVerdict = Null

\* Lines 16-19: without an API key the promise resolves at once.
IdentifyWithoutKey ==
  /\ pc = "identify"
  /\ ~input.apiKey
  /\ verdict' = FailClosed
  /\ pc' = "resolved"
  /\ UNCHANGED <<caller, input, heap, walk, spacing, i, currentDist, newPoints,
                 corners, cleanCorners, calls, firstVerdict, appVars, oracleVars>>

\* Lines 21-27 and 60-63: the client's constructor or generateContent throws
\* before any promise exists; the catch answers.
IdentifyThrows ==
  /\ pc = "identify"
  /\ input.apiKey
  /\ verdict' = FailClosed
  /\ pc' = "resolved"
  /\ UNCHANGED <<caller, input, heap, walk, spacing, i, currentDist, newPoints,
                 corners, cleanCorners, calls, firstVerdict, appVars, oracleVars>>

\* Lines 21-54: the request is sent and identifyShape awaits it.
IdentifyCalls ==
  /\ pc = "identify"
  /\ input.apiKey
  /\ oracle' = [state |-> "pending", request |-> cleanBase64(input.image),
                text |-> ""]
  /\ pc' = "awaiting"
  /\ UNCHANGED <<caller, input, heap, walk, spacing, i, currentDist, newPoints,
                 corners, cleanCorners, verdict, calls, firstVerdict, appVars>>

\* Lines 27 and 60-63: the awaited promise rejects; the catch answers.
OracleRejects ==
  /\ pc = "awaiting"
  /\ oracle.state = "pending"
  /\ oracle' = [oracle EXCEPT !.state = "rejected"]
  /\ verdict' = FailClosed
  /\ pc' = "resolved"
  /\ UNCHANGED <<caller, input, heap, walk, spacing, i, currentDist, newPoints,
                 corners, cleanCorners, calls, firstVerdict, appVars>>

\* Lines 56-59 and 60-63: the awaited promise fulfils with a response.
OracleFulfils ==
  /\ pc = "awaiting"
  /\ oracle.state = "pending"
  /\ \E text \in OracleTexts :
       /\ oracle' = [oracle EXCEPT !.state = "fulfilled", !.text = text]
       /\ verdict' = IF text = UndefinedText \/ text = "" THEN FailClosed
                     ELSE IF JSONParse(text) = SyntaxError THEN FailClosed
                     ELSE JSONParse(text)
  /\ pc' = "resolved"
  /\ UNCHANGED <<caller, input, heap, walk, spacing, i, currentDist, newPoints,
                 corners, cleanCorners, calls, firstVerdict, appVars>>

\* A remote call that never completes takes no step: identifyShape sets no
\* timer and stays at "awaiting".
NextOracle ==
  \/ IdentifyWithoutKey
  \/ IdentifyThrows
  \/ IdentifyCalls
  \/ OracleRejects
  \/ OracleFulfils

SpecOracle == InitOracle /\ [][NextOracle]_vars

----------------------------------------------------------------------------
\* resample called on point lists along a line, near the origin and far from it

\* Longest point list of a walk.
MaxWalkLen == 3

\* Points (pixels) near the origin, all on the x axis, where every distance
\* and every emitted point is a whole number of units.
WalkNear == {Pt(0, 0), Pt(3, 0), Pt(12, 0)}

\* Points far from the origin: both representable, one unit in the last
\* place being 32 there.
WalkFar == {[x |-> 16 * Significand, y |-> 0], [x |-> 16 * Significand + 64, y |-> 0]}

\* Spacings (pixels) of a walk.
WalkSpacings == {1 * Scale, 5 * Scale}

InitWalk ==
  /\ AppIdle
  /\ OracleIdle
  /\ env = [scripts |-> {}, adds |-> 0]
  /\ \E pts \in SeqsUpTo(WalkNear, MaxWalkLen) \cup SeqsUpTo(WalkFar, MaxWalkLen) :
       /\ input = pts
       /\ heap = [points |-> pts, closedPoints |-> <<>>]
  /\ spacing \in WalkSpacings
  /\ pc = "resample" /\ caller = "resample" /\ calls = 0
  /\ walk = "points" /\ i = 0 /\ currentDist = 0
  /\ newPoints = <<>> /\ corners = <<>> /\ cleanCorners = <<>>
  /\ verdict = Null /\ firstVerdict = Null

NextWalk ==
  \/ ResampleCall
  \/ ResampleStep
  \/ ResampleReturn

SpecWalk == InitWalk /\ [][NextWalk]_vars

----------------------------------------------------------------------------
\* Claims about detectShape (SpecDetect) and resample (SpecResample)

\* The quantities the claims speak of, for the stroke the call was given.
InLen == getPathLength(input)
InDist == IF Len(input) = 0 THEN 0 ELSE distance(input[1], input[Len(input)])
IsLine == InDist * 100 > InLen * 85
IsOpen == InDist * 10 > InLen * 3
Returned == caller = "detectShape" /\ pc = "done"
PassedGates == Len(input) >= 10 /\ ~IsLine /\ ~IsOpen

\* C1: a stroke of fewer than 10 points, the empty one included, gets the
\* verdict None (null), whatever its coordinates.
C1_ShortStrokeIsNull == (Returned /\ Len(input) < 10) => verdict = Null

\* A 9-point stroke that is straight end to end (a Line, were it longer) was
\* given the verdict.
C1_Witness ==
  /\ Returned /\ Len(input) = 9 /\ IsLine /\ InLen > 0
  /\ verdict = Null

\* C2: for a stroke of at least 10 points, dist > 0.85 len gives Line, tested
\* before the closure gate; otherwise dist > 0.3 len gives None; and a stroke
\* with dist <= 0.3 len is not stopped by the closure gate: it is resampled.
C2_LineThenClosureGate ==
  (Returned /\ Len(input) >= 10) =>
     /\ IsLine => verdict = Shape("LINE")
     /\ (~IsLine /\ IsOpen) => (verdict = Null /\ newPoints = <<>>)
     /\ (~IsLine /\ ~IsOpen) => (newPoints # <<>> /\ Len(heap.closedPoints) > Len(input))

\* A stroke that is both straight (dist > 0.85 len) and open (dist > 0.3 len)
\* was classified Line.
C2_Witness ==
  /\ Returned /\ Len(input) >= 10 /\ IsLine /\ IsOpen
  /\ verdict = Shape("LINE")

\* The first matching rule of the claim's ordered list, for corner indices cc,
\* resampled points rs and the two ratios rr and ar.
FirstMatchingRule(cc, rs, rr, ar) ==
  CASE Len(cc) = 3 -> 1
    [] Len(cc) = 4 -> 2
    [] Len(cc) \notin {3, 4} /\ Len(cc) = 0 /\ Below(rr, 25) -> 3
    [] Len(cc) \notin {3, 4} /\ ~(Len(cc) = 0 /\ Below(rr, 25)) /\ Below(rr, 20) -> 4
    [] OTHER ->
         IF Above(ar, 80) THEN 5
         ELSE IF Below(ar, 65) THEN 6
         ELSE IF Len(cc) = 5 THEN 7
         ELSE 8

RuleOfCall ==
  FirstMatchingRule(cleanCorners, newPoints, RadiusRatio(input), AreaRatio(input))

\* C3: once the length, line and closure gates are passed, the verdict is that
\* of the first matching rule: 3 corners -> Triangle with the resampled points
\* at the corner indices; 4 corners -> Square; 0 corners and radiusRatio < 0.25
\* -> Circle; radiusRatio < 0.20 -> Circle; areaRatio > 0.80 -> Square;
\* areaRatio < 0.65 -> Triangle with the Vertex Extractor's points; 5 corners
\* -> Square; otherwise Square.
C3_FirstMatchingRule ==
  (Returned /\ PassedGates) =>
     verdict = CASE RuleOfCall = 1 ->
                      [type |-> "TRIANGLE",
                       points |-> <<newPoints[cleanCorners[1] + 1],
                                    newPoints[cleanCorners[2] + 1],
                                    newPoints[cleanCorners[3] + 1]>>]
                 [] RuleOfCall = 2 -> [type |-> "SQUARE"]
                 [] RuleOfCall \in {3, 4} -> [type |-> "CIRCLE"]
                 [] RuleOfCall = 5 -> [type |-> "SQUARE"]
                 [] RuleOfCall = 6 ->
                      [type |-> "TRIANGLE", points |-> getTriangleVertices(newPoints)]
                 [] OTHER -> [type |-> "SQUARE"]

\* A stroke with 3 corners whose radius ratio is below 0.20 (the Circle rule
\* would match it too) was classified Triangle.
C3_Witness ==
  /\ Returned /\ PassedGates
  /\ Len(cleanCorners) = 3 /\ Below(RadiusRatio(input), 20)
  /\ verdict.type = "TRIANGLE"

\* C4: a stroke of at least 10 points that is not a Line and has
\* dist <= 0.3 len always gets Triangle, Square or Circle, never None.
C4_AlwaysClassified ==
  (Returned /\ PassedGates) => verdict.type \in {"TRIANGLE", "SQUARE", "CIRCLE"}

\* A stroke that no rule but the final default matches was classified.
C4_Witness ==
  /\ Returned /\ PassedGates /\ RuleOfCall = 8
  /\ verdict = Shape("SQUARE")

\* C5: every Triangle verdict that carries vertices carries exactly 3 points.
C5_TriangleHasThreeVertices ==
  (Returned /\ verdict.type = "TRIANGLE") => Len(verdict.points) = 3

\* C6: detectShape leaves the caller's array as it was, at every point of the
\* call, and a second call on the same array returns the same verdict.
C6_StrokeUnchanged ==
  caller = "detectShape" =>
     /\ heap.points = input
     /\ (pc = "done" /\ calls >= 2) => verdict = firstVerdict

\* A second call has returned, and resample spliced points into the array it
\* walked.
C6_Witness ==
  /\ Returned /\ calls = 2
  /\ Len(heap.closedPoints) > Len(input) + 1
  /\ verdict # Null

\* The quantities of a call of resample on a 2-point list [a, b].
PairReturned == caller = "resample" /\ pc = "returned" /\ Len(input) = 2
PairDist == distance(input[1], input[2])

\* C7 as stated: resample([a, b], s) returns [a, b] and leaves the input [a, b].
C7_PairReturnedUnchanged ==
  PairReturned => (newPoints = input /\ heap.points = input)

\* C7 amended: resample([a, b], s) returns a followed by the points it emits
\* along the segment, none when distance(a, b) < s and at least one otherwise,
\* and leaves the input as a, the emitted points, b; a list of fewer than 2
\* points is returned as it is.
C7_PairResampled ==
  /\ PairReturned =>
       /\ newPoints[1] = input[1]
       /\ heap.points = <<input[1]>> \o Tail(newPoints) \o <<input[2]>>
       /\ (PairDist < spacing) <=> (Len(newPoints) = 1)
  /\ (caller = "resample" /\ pc = "returned" /\ Len(input) < 2) =>
       (newPoints = input /\ heap.points = input)

\* A 2-point list longer than twice the spacing was resampled: two points
\* were emitted and spliced into the input.
C7_Witness ==
  /\ PairReturned
  /\ PairDist >= 2 * spacing
  /\ Len(newPoints) = 3 /\ Len(heap.points) = 4

----------------------------------------------------------------------------
\* Claims about the App component (SpecStroke, Spec)

IsPrefix(a, b) == Len(a) <= Len(b) /\ SubSeq(b, 1, Len(a)) = a

\* The last handler was a pointer-up that finalised a pen stroke.
PenStrokeAdded ==
  lastOp.op = "add" /\ lastOp.by = "pointerUp" /\ lastOp.drawn.type = "FREEHAND"

\* C8: pointer-up on a pen stroke appends, for a verdict other than None, a
\* primitive of the verdict's type with the freehand element's id, color and
\* stroke width and the verdict's geometry: first and last point for Line, the
\* bounding box for Square, Circle and Triangle, and for Triangle also the
\* verdict's vertices in the points field; for None, the freehand element itself.
C8_PrimitiveCarriesVerdict ==
  PenStrokeAdded =>
     LET el == elements[Len(elements)]
         drawn == lastOp.drawn
         shape == lastOp.shape
         box == getBoundingBox(drawn.points)
     IN IF shape = Null THEN el = drawn
        ELSE /\ el.type = shape.type
             /\ el.id = drawn.id
             /\ el.color = drawn.color
             /\ el.strokeWidth = drawn.strokeWidth
             /\ shape.type = "LINE" =>
                  /\ el.start = drawn.points[1]
                  /\ el.end = drawn.points[Len(drawn.points)]
             /\ shape.type \in {"SQUARE", "CIRCLE", "TRIANGLE"} =>
                  /\ el.x = box.x /\ el.y = box.y
                  /\ el.width = box.width /\ el.height = box.height
             /\ shape.type = "TRIANGLE" =>
                  /\ "points" \in DOMAIN el
                  /\ el.points = shape.points

\* C9: every addition (stroke, text, image) leaves the board as it was just
\* before the addition, with the one new element at the end.
C9_AdditionsAppend ==
  lastOp.op = "add" =>
     /\ Len(elements) = Len(lastOp.board) + 1
     /\ SubSeq(elements, 1, Len(lastOp.board)) = lastOp.board

\* C10 as stated: in every step the history list before the step is a prefix
\* of the history list after it.
C10_HistoryOnlyGrows == [][IsPrefix(history, history')]_vars

\* history.slice(0, historyStep + 1) followed by the new snapshot.
CutAndPush(hist, step, snapshot) ==
  SubSeq(hist, 1, Min(step + 1, Len(hist))) \o <<snapshot>>

\* C10 amended: undo and redo never change the history list, and only an
\* addition does.  An addition by pointer-up or text replaces it by its first
\* historyStep + 1 snapshots followed by the new snapshot, so the old list is a
\* prefix of the new one when no undone snapshot remains
\* (historyStep >= length - 1) and its snapshots after historyStep are removed
\* otherwise; an image load does the same with the history list and the
\* historyStep its paste captured.
C10_HistoryCutThenPush ==
  [][/\ history' # history => lastOp'.op = "add"
     /\ lastOp'.op \in {"undo", "redo"} => history' = history
     /\ (lastOp'.op = "add" /\ lastOp'.by # "image") =>
          /\ history' = CutAndPush(history, historyStep, elements')
          /\ historyStep >= Len(history) - 1 => IsPrefix(history, history')
          /\ historyStep < Len(history) - 1 => Len(history') = historyStep + 2
     /\ (lastOp'.op = "add" /\ lastOp'.by = "image") =>
          \E j \in 1..Len(pending) :
             /\ pending[j].stage = "decoding"
             /\ history' = CutAndPush(pending[j].history, pending[j].historyStep,
                                      elements')
    ]_vars

\* An addition was made by pointer-up or text while an undone snapshot
\* remained: the history list lost it.
C10_Witness ==
  /\ lastOp.op = "add" /\ lastOp.by # "image"
  /\ lastOp.step < Len(lastOp.hist) - 1
  /\ ~IsPrefix(lastOp.hist, history)

----------------------------------------------------------------------------
\* Claims about isPointNearElement (SpecHit)

HitReturned == pc = "returned" /\ caller = "isPointNearElement"

\* The segments of a path element, by the index of their first point.
SegmentsOf(points) == IF Len(points) < 2 THEN {} ELSE 1..(Len(points) - 1)

\* C11: on a path element, FREEHAND or ERASER alike, isPointNearElement
\* returns true when the query point is nearer than threshold to some segment
\* between consecutive points, and false when it is farther than threshold
\* from all of them.
C11_PathHitBySegments ==
  (HitReturned /\ input.element.type \in {"FREEHAND", "ERASER"}) =>
    LET pts == input.element.points
        d(k) == distToSegment(input.point, pts[k], pts[k + 1])
    IN /\ (\E k \in SegmentsOf(pts) : d(k) < input.threshold) => verdict.value
       /\ (\A k \in SegmentsOf(pts) : d(k) > input.threshold) => ~verdict.value

\* C12: for a Circle element whose box has width >= 0 and height >= 0,
\* isPointNearElement returns true at the element's own centre
\* (x + width/2, y + height/2) and false at every point outside its box.
C12_CircleCentreAndOutside ==
  (HitReturned /\ input.element.type = "CIRCLE"
     /\ input.element.width >= 0 /\ input.element.height >= 0) =>
    LET e == input.element
        q == input.point
        atCentre == 2 * (q.x - e.x) = e.width /\ 2 * (q.y - e.y) = e.height
        outside == \/ q.x < e.x \/ q.x > e.x + e.width
                   \/ q.y < e.y \/ q.y > e.y + e.height
    IN /\ atCentre => verdict.value
       /\ outside => ~verdict.value

\* Twice the area of the triangle a, b, c.
TwiceArea(a, b, c) == Abs((b.x - a.x) * (c.y - a.y) - (c.x - a.x) * (b.y - a.y))

\* q belongs to the closed triangle tri: the three triangles q makes with the
\* sides add up to tri, and q is within the extent of the vertices (which
\* decides it when the vertices are collinear).
InsideOrOn(tri, q) ==
  /\ TwiceArea(q, tri[1], tri[2]) + TwiceArea(q, tri[2], tri[3])
       + TwiceArea(q, tri[3], tri[1]) = TwiceArea(tri[1], tri[2], tri[3])
  /\ \E a, b \in 1..3 : tri[a].x <= q.x /\ q.x <= tri[b].x
  /\ \E a, b \in 1..3 : tri[a].y <= q.y /\ q.y <= tri[b].y

\* C13: for a Triangle element, the triangle tested is the stored vertices
\* when exactly 3 are present and otherwise the one inscribed in the box
\* (apex top-centre, two bottom corners); isPointNearElement returns true
\* exactly at the points inside or on the boundary of that triangle, for
\* both windings; with vertices (1,1),(5,1),(3,5) it is true at (3, 2.3) and
\* false at (100,100).
C13_TriangleHitIsContainment ==
  (HitReturned /\ input.element.type = "TRIANGLE") =>
    LET e == input.element
        tri == IF Len(e.points) = 3 THEN e.points
               ELSE << [x |-> e.x + e.width \div 2, y |-> e.y],
                       [x |-> e.x, y |-> e.y + e.height],
                       [x |-> e.x + e.width, y |-> e.y + e.height] >>
    IN verdict.value <=> InsideOrOn(tri, input.point)

----------------------------------------------------------------------------
\* Claims about getTriangleVertices (SpecVertices)

\* C14: getTriangleVertices is order-independent: called on a point list of
\* three points or more and on any permutation of it, it returns the same
\* three points P1, P2, P3, also when several points tie for a maximum.
C14_VerticesOrderIndependent ==
  (pc = "returned" /\ caller = "getTriangleVertices" /\ Len(input.points) >= 3) =>
    verdict.points = firstVerdict.points

----------------------------------------------------------------------------
\* Claims about identifyShape (SpecOracle)

\* A response text that is JSON with a boolean isShape and a shapeType among
\* triangle, square, circle, none: the only outcome that is not a failure.
WellFormedAnswer ==
  /\ oracle.state = "fulfilled"
  /\ oracle.text \in { "{\"isShape\":true,\"shapeType\":\"triangle\"}",
                       "{\"shapeType\":\"circle\",\"isShape\":true}",
                       "{\"isShape\":false,\"shapeType\":\"none\"}" }

\* C15: the oracle call fails closed: whenever the remote call ends in a
\* missing API key, a thrown error, a rejected promise, an empty text, a text
\* that is not JSON, or JSON that lacks or mistypes isShape/shapeType,
\* identifyShape resolves to {isShape: false, shapeType: 'none'}.
C15_OracleFailsClosed ==
  (pc = "resolved" /\ caller = "identifyShape" /\ ~WellFormedAnswer) =>
    verdict = FailClosed

----------------------------------------------------------------------------
\* Claims about the history (Spec), continued

\* The board shows history[historyStep] (0-based) when that snapshot exists
\* and nothing otherwise, and historyStep never goes below -1.
HistoryShown ==
  /\ -1 <= historyStep
  /\ elements = IF 0 <= historyStep /\ historyStep < Len(history)
                THEN history[historyStep + 1]
                ELSE <<>>

\* A redo that comes right after an undo.
RedoAfterUndo == lastOp.op = "undo" /\ lastOp'.op = "redo"

----------------------------------------------------------------------------
\* Claims about getCorners and the corner cleaning (SpecDetect)

\* The corners of the call have been found and cleaned.
CornersFound == caller = "detectShape" /\ pc \in {"classify", "done"}

\* C17: every corner index getCorners returns on n >= 10 points lies in
\* [W+1, n-W-2] = [4, n-5]; so for the cleaned corners (n - last) + first >= 9,
\* the wrap-around step never drops a corner, and the cleaned corners are
\* those left by the adjacent-merge step alone.
C17_CornersAwayFromSeam ==
  CornersFound =>
    LET n == Len(newPoints)
    IN /\ \A k \in 1..Len(corners) :
            /\ W + 1 <= corners[k] /\ corners[k] <= n - W - 2
            /\ 4 <= corners[k] /\ corners[k] <= n - 5
       /\ cleanCorners # <<>> =>
            (n - cleanCorners[Len(cleanCorners)]) + cleanCorners[1] >= 9
       /\ cleanCorners = MergeAdjacent(corners)

\* A call whose corners number two or more after the merge, so that the
\* wrap-around test was evaluated, the merge having dropped a corner.
C17_Witness ==
  /\ CornersFound
  /\ Len(cleanCorners) >= 2
  /\ Len(corners) > Len(cleanCorners)

----------------------------------------------------------------------------
\* Claims about resample's loop (SpecWalk)

\* The loop of a call of resample on two points or more is running or over.
Walking == caller = "resample" /\ pc \in {"loop", "returned"} /\ Len(input) >= 2

\* The iteration about to run looks at the segment pt1-pt2.
SegmentStart == heap[walk][i]
SegmentEnd == heap[walk][i + 1]

\* This step is an iteration of the loop that emits a point.
Emits == pc = "loop" /\ Len(newPoints') = Len(newPoints) + 1

\* C18: resample terminates for every finite point sequence and every
\* spacing s > 0: the output starts with the input's first point, it never
\* has more than floor(pathLength / s) + 1 points (so the loop, which
\* advances at every iteration, ends), a zero-length segment never triggers
\* an emission, and each emitted point lies at path distance exactly s from
\* the previous emitted point.
C18_ResampleWalkIsBounded ==
  /\ [](Walking =>
          /\ newPoints[1] = input[1]
          /\ Len(newPoints) <= getPathLength(input) \div spacing + 1)
  /\ [][(Walking /\ Emits) =>
          /\ distance(SegmentStart, SegmentEnd) # 0
          /\ currentDist + distance(SegmentStart, newPoints'[Len(newPoints')])
               = spacing]_vars

====
